---------------------------- MODULE Spec2Model ----------------------------
(***************************************************************************)
(* Model of nba-connections/main.py: the roster crawler of                 *)
(* basketball-reference.com.                                               *)
(*                                                                         *)
(* Text is modelled as a sequence of tokens.  In a url a decimal digit is   *)
(* always a token of its own and every other token is a piece of text      *)
(* without digits, so that the regular expression \d{4} and the f-string   *)
(* formatting of a year are computed on the characters that matter to      *)
(* them.  Team codes are letters only (TeamCode: a 3-letter code).         *)
(*                                                                         *)
(* The network is the environment: a GET ends with a success status and    *)
(* the page of the site, with an error status and a body (an error page,   *)
(* or the page all the same), or with a transport failure.                 *)
(***************************************************************************)
EXTENDS Integers, Sequences, FiniteSets, TLC

\* ------------------------------------------------------------------ bounds
\* longest season chain of a team on the modelled site
MaxChain == 3
\* most fetches of one run that the network or the server lets fail
MaxFailures == 1
\* most header cells of the teams section of a landing page
MaxLinks == 3
\* most rows of a roster table handed to get_players on its own
MaxRows == 3
\* the season of the newest roster page of the modelled site
BaseYear == 2002

\* ------------------------------------------------------------- text, urls
BASE_URL == <<"https://www.basketball-reference.com">>

DigitToks == <<"0", "1", "2", "3", "4", "5", "6", "7", "8", "9">>

IsDigit(c) == \E i \in 1..10 : DigitToks[i] = c

DigitVal(c) == (CHOOSE i \in 1..10 : DigitToks[i] = c) - 1

\* str(n) of a non-negative int, as the f-string formats it: no padding
RECURSIVE Str(_)
Str(n) == IF n < 10 THEN <<DigitToks[n + 1]>>
          ELSE Str(n \div 10) \o <<DigitToks[(n % 10) + 1]>>

\* re.search(r"\d{4}", url): the start of the leftmost run of four digits, 0 for None
YearMatch(url) ==
    LET starts == {i \in 1..(Len(url) - 3) : \A j \in 0..3 : IsDigit(url[i + j])}
    IN IF starts = {} THEN 0 ELSE CHOOSE i \in starts : \A k \in starts : i <= k

\* int(re.search(r"\d{4}", current_url).group(0))
ParseYear(url) ==
    LET i == YearMatch(url)
    IN 1000 * DigitVal(url[i]) + 100 * DigitVal(url[i + 1])
         + 10 * DigitVal(url[i + 2]) + DigitVal(url[i + 3])

PrevSeasonEndpoint_SameYear(team, year) ==
    <<"/teams/", team, "/">> \o Str(year) \o <<".html">>

PrevSeasonEndpoint_TwoBack(team, year) ==
    <<"/teams/", team, "/">> \o Str(year - 2) \o <<".html">>

PrevSeasonEndpoint_FixedTeam(team, year) ==
    <<"/teams/", "B", "/">> \o Str(year - 1) \o <<".html">>

\* f"/teams/{team}/{year - 1}.html"
PrevSeasonEndpoint(team, year) ==
    <<"/teams/", team, "/">> \o Str(year - 1) \o <<".html">>

\* the path of the roster page of a team's season on the site
SeasonPath(team, year) == <<"/teams/", team, "/">> \o Str(year) \o <<".html">>

\* ------------------------------------------------------------------ markup
\* find(...) and the .a/.div/.tbody accessors of BeautifulSoup return None when
\* nothing matches: an optional value is the empty tuple or a one-element tuple
None == <<>>
Some(x) == <<x>>
The(o) == o[1]

\* a cell of a table row: its tag, its data-stat attribute, the text of its
\* first anchor (None without one) and the text after the anchor
Cell(tag, stat, a, tail) == [tag |-> tag, stat |-> stat, a |-> a, tail |-> tail]

\* Tag.text: all the strings of the element, concatenated
CellText(c) == IF c.a = None THEN c.tail ELSE The(c.a) \o c.tail

\* table_row.find("td", {"data-stat": stat}): the first such cell, else None
FindCell(row, stat) ==
    LET hits == {i \in 1..Len(row) : row[i].tag = "td" /\ row[i].stat = stat}
    IN IF hits = {} THEN None
       ELSE Some(row[CHOOSE i \in hits : \A k \in hits : i <= k])

Stats == <<"player", "pos", "height", "weight", "birth_date">>

\* the lookups of player_info_helper all succeed: five cells, an anchor in the first
RowOk(row) ==
    /\ \A i \in 1..Len(Stats) : FindCell(row, Stats[i]) # None
    /\ The(FindCell(row, "player")).a # None

\* the outcome of a call: the exception that left it, or its return value
Raise(e) == [exc |-> e, value |-> <<>>]
Return(v) == [exc |-> "none", value |-> v]

player_info_helper_CellName(table_row) ==
    IF ~RowOk(table_row) THEN Raise("AttributeError")
    ELSE Return([name      |-> CellText(The(FindCell(table_row, "player"))),
                 position  |-> CellText(The(FindCell(table_row, "pos"))),
                 height    |-> CellText(The(FindCell(table_row, "height"))),
                 weight    |-> CellText(The(FindCell(table_row, "weight"))),
                 birthdate |-> CellText(The(FindCell(table_row, "birth_date")))])

\* the text of the row's cell, the empty text when the row has no such cell
TextOrEmpty(row, stat) ==
    IF FindCell(row, stat) = None THEN <<>> ELSE CellText(The(FindCell(row, stat)))

player_info_helper_PartialRecord(table_row) ==
    IF FindCell(table_row, "player") = None \/ The(FindCell(table_row, "player")).a = None
      THEN Raise("AttributeError")
    ELSE Return([name      |-> The(The(FindCell(table_row, "player")).a),
                 position  |-> TextOrEmpty(table_row, "pos"),
                 height    |-> TextOrEmpty(table_row, "height"),
                 weight    |-> TextOrEmpty(table_row, "weight"),
                 birthdate |-> TextOrEmpty(table_row, "birth_date")])

\* player_info_helper: a lookup that finds nothing yields None, and the
\* attribute access on None raises AttributeError
player_info_helper(table_row) ==
    IF ~RowOk(table_row) THEN Raise("AttributeError")
    ELSE Return([name      |-> The(The(FindCell(table_row, "player")).a),
                 position  |-> CellText(The(FindCell(table_row, "pos"))),
                 height    |-> CellText(The(FindCell(table_row, "height"))),
                 weight    |-> CellText(The(FindCell(table_row, "weight"))),
                 birthdate |-> CellText(The(FindCell(table_row, "birth_date")))])

\* get_players: the loop over the rows of the table body, in document order
RECURSIVE PlayersLoop(_, _, _)
PlayersLoop(rows, i, players) ==
    IF i > Len(rows) THEN Return(players)
    ELSE LET p == player_info_helper(rows[i])
         IN IF p.exc # "none" THEN Raise(p.exc)
            ELSE PlayersLoop(rows, i + 1, Append(players, p.value))

get_players(roster_table) == PlayersLoop(roster_table, 1, <<>>)

\* ------------------------------------------------------------------- pages
\* a page: the div#teams section, the table#roster, the hrefs of its anchors and
\* the season its own heading declares (0 when it declares none)
\*   teams  : None or Some([div |-> None or Some(<<table, ...>>)])
\*   table  : [tbody |-> None or Some(<<header, ...>>)],  header : [a |-> None or Some(link)]
\*   roster : None or Some([tbody |-> None or Some(<<row, ...>>)])
Page(teams, roster, links, season) ==
    [teams |-> teams, roster |-> roster, links |-> links, season |-> season]

\* the body a server sends with an error status: none of the expected markup
ErrorPage == Page(None, None, {}, 0)

Link(text, href) == [text |-> text, href |-> href]
Header(link) == [a |-> Some(link)]
NoLinkHeader == [a |-> None]
Table(headers) == [tbody |-> Some(headers)]
Landing(tables) == Page(Some([div |-> Some(tables)]), None, {}, 0)

\* a dict keeps its keys in insertion order; assigning to a present key keeps its place
EmptyDict == [keys |-> <<>>, val |-> <<>>]
DictSet(d, k, v) ==
    [keys |-> IF k \in DOMAIN d.val THEN d.keys ELSE Append(d.keys, k),
     val  |-> (k :> v) @@ d.val]

\* the inner loop of get_team_urls: the th cells of one conference table
RECURSIVE HeadersLoop(_, _, _)
HeadersLoop(headers, j, team_urls) ==
    IF j > Len(headers) THEN Return(team_urls)
    ELSE IF headers[j].a = None THEN Raise("AttributeError")
    ELSE LET team_link == The(headers[j].a)
         IN HeadersLoop(headers, j + 1,
                        DictSet(team_urls, team_link.text, BASE_URL \o team_link.href))

TablesLoop_FirstTable(tables, i, team_urls) ==
    IF i > Len(tables) \/ i > 1 THEN Return(team_urls)
    ELSE IF tables[i].tbody = None THEN Raise("AttributeError")
    ELSE HeadersLoop(The(tables[i].tbody), 1, team_urls)

\* the outer loop of get_team_urls: the tables of the first div of the section
RECURSIVE TablesLoop(_, _, _)
TablesLoop(tables, i, team_urls) ==
    IF i > Len(tables) THEN Return(team_urls)
    ELSE IF tables[i].tbody = None THEN Raise("AttributeError")
    ELSE LET r == HeadersLoop(The(tables[i].tbody), 1, team_urls)
         IN IF r.exc # "none" THEN r ELSE TablesLoop(tables, i + 1, r.value)

ParseTeamUrls_EmptyFallback(page) ==
    IF page.teams = None THEN Return(EmptyDict)
    ELSE IF The(page.teams).div = None THEN Raise("AttributeError")
    ELSE TablesLoop(The(The(page.teams).div), 1, EmptyDict)

\* get_team_urls after the fetch: soup.find("div", {"id": "teams"}) and the loops
ParseTeamUrls(page) ==
    IF page.teams = None THEN Raise("AttributeError")
    ELSE IF The(page.teams).div = None THEN Raise("AttributeError")
    ELSE TablesLoop(The(The(page.teams).div), 1, EmptyDict)

\* ----------------------------------------------------------------- fetching
\* what session.get(url) can end with: a response with a success status and
\* the page of the site, a response with an error status whose body is an error
\* page or the page itself, or a transport failure (ConnectionError)
Response(status, body) == [status |-> status, body |-> body]

\* the history of a run: every GET with its url, how it ended, whether the body
\* that came back was the page of the site or an error page, and the team whose
\* page was asked for ("" for the landing page); and every sleep
GetEvent(url, resp, team) ==
    [kind |-> "get", url |-> url, status |-> resp.status,
     content |-> IF resp.body = ErrorPage THEN "error" ELSE "page", team |-> team]
SleepEvent == [kind |-> "sleep", url |-> <<>>, status |-> "-", content |-> "-", team |-> ""]

\* time.sleep(3.1)
Sleep(evs) == Append(evs, SleepEvent)

\* api_delay(): the rate limiter, called by get_historic_rosters
api_delay(evs) == Sleep(evs)

get_page_html_AlwaysSleep(url, resp, team, evs) ==
    LET got == Append(evs, GetEvent(url, resp, team))
    IN IF resp.status = "transport"
         THEN [exc |-> "ConnectionError", returned |-> "-", text |-> ErrorPage,
               warned |-> FALSE, events |-> got]
       ELSE [exc |-> "none", returned |-> "text", text |-> resp.body,
             warned |-> resp.status = "http", events |-> Sleep(got)]

\* get_page_html: a ConnectionError of session.get is not an HTTPError and leaves
\* the function; the HTTPError of raise_for_status skips the sleep, is logged,
\* and the body of the error response is returned.  `returned` is the kind of
\* value handed to the caller: always the str response.text
get_page_html(url, resp, team, evs) ==
    LET got == Append(evs, GetEvent(url, resp, team))
    IN IF resp.status = "transport"
         THEN [exc |-> "ConnectionError", returned |-> "-", text |-> ErrorPage,
               warned |-> FALSE, events |-> got]
       ELSE IF resp.status = "http"
         THEN [exc |-> "none", returned |-> "text", text |-> resp.body,
               warned |-> TRUE, events |-> got]
       ELSE [exc |-> "none", returned |-> "text", text |-> resp.body,
             warned |-> FALSE, events |-> Sleep(got)]

\* one iteration of the while loop of get_historic_rosters (lines 139-153):
\* the GET, the delay, the year of the url, the extraction, the store and the
\* search for the link to the previous season
WalkBody(team, current_url, resp, historic_rosters, evs) ==
    LET got == Append(evs, GetEvent(current_url, resp, team))
        fail(e, ev) == [exc |-> e, historic_rosters |-> historic_rosters, year |-> 0,
                        next |-> None, events |-> ev]
    IN IF resp.status = "transport" THEN fail("ConnectionError", got)
       ELSE
       LET delayed == api_delay(got)
           soup == resp.body
       IN IF YearMatch(current_url) = 0 THEN fail("AttributeError", delayed)
          ELSE IF soup.roster = None THEN fail("AttributeError", delayed)
          ELSE IF The(soup.roster).tbody = None THEN fail("AttributeError", delayed)
          ELSE
          LET year == ParseYear(current_url)
              players == get_players(The(The(soup.roster).tbody))
              prev_season_endpoint == PrevSeasonEndpoint(team, year)
          IN IF players.exc # "none" THEN fail(players.exc, delayed)
             ELSE [exc |-> "none",
                   historic_rosters |-> (year :> players.value) @@ historic_rosters,
                   year |-> year,
                   next |-> IF prev_season_endpoint \in soup.links
                              THEN Some(BASE_URL \o prev_season_endpoint) ELSE None,
                   events |-> delayed]

\* ---------------------------------------------------------------- the site
Teams == {"A", "B"}
Years == (BaseYear - MaxChain + 1)..BaseYear

TextCell(stat, text) == Cell("td", stat, None, text)

\* a well-formed roster row: the jersey number in a th, the player's name in an
\* anchor of the player cell, followed by `tail` (the site marks two-way
\* players after the anchor)
PlayerRow(name, tail) ==
    <<Cell("th", "number", None, <<"7">>),
      Cell("td", "player", Some(name), tail),
      TextCell("pos", <<"pos of ">> \o name), TextCell("height", <<"height of ">> \o name),
      TextCell("weight", <<"weight of ">> \o name),
      TextCell("birth_date", <<"birth date of ">> \o name)>>

\* a row without its weight cell
ShortRow(name) ==
    <<Cell("td", "player", Some(name), <<>>),
      TextCell("pos", <<"pos of ">> \o name), TextCell("height", <<"height of ">> \o name),
      TextCell("birth_date", <<"birth date of ">> \o name)>>

PlayerOf(t, y) == <<t, " player of ">> \o Str(y)

NoDefect == [team |-> "", year |-> 0, kind |-> "none"]
Defects == {NoDefect} \cup
           [team : Teams, year : Years, kind : {"NoTable", "NoTbody", "ShortRow", "ExtraLinks", "OtherSeason"}]

\* the roster page of team t for season y: it links to the previous season while
\* that season belongs to the team's chain of chain[t] seasons.  One page of the
\* site may have a defect: no roster table, a table without body, a row without
\* its weight cell, links to other seasons (itself, the next season, two seasons
\* back, the other team), or a heading that declares another season
SeasonPage(t, y, chain, defect) ==
    LET here == defect.team = t /\ defect.year = y
        rows == <<PlayerRow(PlayerOf(t, y), <<>>)>>
        roster == IF here /\ defect.kind = "NoTable" THEN None
                  ELSE IF here /\ defect.kind = "NoTbody" THEN Some([tbody |-> None])
                  ELSE IF here /\ defect.kind = "ShortRow"
                         THEN Some([tbody |-> Some(rows \o <<ShortRow(PlayerOf(t, y))>>)])
                  ELSE Some([tbody |-> Some(rows)])
        prev == IF y - 1 >= BaseYear - chain[t] + 1 THEN {SeasonPath(t, y - 1)} ELSE {}
        extra == IF here /\ defect.kind = "ExtraLinks"
                   THEN {SeasonPath(t, y), SeasonPath(t, y + 1), SeasonPath(t, y - 2)}
                        \cup {SeasonPath(u, y - 1) : u \in Teams \ {t}}
                   ELSE {}
        season == IF here /\ defect.kind = "OtherSeason" THEN y + 1 ELSE y
    IN Page(None, roster, prev \cup extra, season)

TeamLink(t, hrefTeam, y) == Header(Link(t, SeasonPath(hrefTeam, y)))

\* the landing pages of the runs: two conferences of one team; one table whose
\* second team is seeded a season earlier; a link whose href names another team
WalkLandings ==
    { Landing(<<Table(<<TeamLink("A", "A", BaseYear)>>),
                Table(<<TeamLink("B", "B", BaseYear)>>)>>),
      Landing(<<Table(<<TeamLink("B", "B", BaseYear - 1), TeamLink("A", "A", BaseYear)>>)>>),
      Landing(<<Table(<<TeamLink("A", "B", BaseYear)>>)>>) }

\* and the landing pages with nothing to walk: a header cell without link, no
\* conference table, no teams section
BrokenLandings ==
    { Landing(<<Table(<<TeamLink("A", "A", BaseYear), NoLinkHeader>>)>>),
      Landing(<<>>),
      ErrorPage }

RunLandings == WalkLandings \cup BrokenLandings

SiteUrls == {BASE_URL} \cup {BASE_URL \o SeasonPath(t, y) : t \in Teams, y \in Years}

\* a site: the page at every url, from its landing page, the length of each
\* team's season chain and its defective page
Site(landing, chain, defect) ==
    [u \in SiteUrls |->
       IF u = BASE_URL THEN landing
       ELSE LET ty == CHOOSE p \in Teams \X Years : u = BASE_URL \o SeasonPath(p[1], p[2])
            IN SeasonPage(ty[1], ty[2], chain, defect)]

\* the page that site s serves at url u
PageOf(s, u) == s[u]

\* the lengths of the season chains: team A's of up to MaxChain seasons, team
\* B's shorter than the longest
Chains == {c \in [Teams -> 1..MaxChain] : c["B"] < MaxChain}

SoundSites == {Site(l, c, NoDefect) : l \in WalkLandings, c \in Chains}
                \cup {Site(l, [t \in Teams |-> 1], NoDefect) : l \in BrokenLandings}

\* the defective page is a page of its team's season chain
RunSites ==
    SoundSites
    \cup {Site(p[1], p[2], p[3]) :
            p \in {q \in WalkLandings \X Chains \X (Defects \ {NoDefect}) :
                     q[3].year > BaseYear - q[2][q[3].team]}}

\* -------------------------------------------------------------------- state
VARIABLES
    mode,              \* the entry point: "directory", "current" or "historic"
    site,              \* the pages of the web site, by url
    pc,                \* position of the run
    exc,               \* the exception that ended the run, "none" otherwise
    team_urls,         \* the directory returned by get_team_urls
    ti,                \* position of the for loop in team_urls
    current_url,       \* get_historic_rosters: the url to fetch next
    historic_rosters,  \* get_historic_rosters: the mapping of the team being walked
    rosters,           \* the mapping being built, and returned
    events,            \* history: the GETs and the sleeps, in order
    stores,            \* history: the assignments historic_rosters[year] = ...
    page_result,       \* history: the outcome of the last call of get_page_html
    roster_table,      \* the argument of a call of get_players on its own
    players            \* the outcome of that call

vars == <<mode, site, pc, exc, team_urls, ti, current_url, historic_rosters, rosters,
          events, stores, page_result, roster_table, players>>

NoCall == [url |-> <<>>, status |-> "-", exc |-> "none", returned |-> "-", warned |-> FALSE]

Failures(evs) == Cardinality({i \in 1..Len(evs) : evs[i].kind = "get" /\ evs[i].status # "ok"})

\* the ways a GET of url can end in the current state
Responses(url) ==
    LET page == IF url \in DOMAIN site THEN {PageOf(site, url)} ELSE {}
    IN {Response("ok", b) : b \in page}
       \cup IF Failures(events) < MaxFailures
              THEN {Response("http", b) : b \in page \cup {ErrorPage}}
                   \cup {Response("transport", ErrorPage)}
              ELSE {}

InitData ==
    /\ exc = "none"
    /\ team_urls = EmptyDict
    /\ ti = 0
    /\ current_url = <<>>
    /\ historic_rosters = <<>>
    /\ rosters = <<>>
    /\ events = <<>>
    /\ stores = <<>>
    /\ page_result = NoCall
    /\ players = Return(<<>>)

InitRun ==
    /\ InitData
    /\ pc = "start"
    /\ roster_table = <<>>

\* the walk of get_historic_rosters meets every page of a site, the other two
\* entry points are run on the sites without a defective page
Init ==
    /\ \/ mode = "historic" /\ site \in RunSites
       \/ /\ mode \in {"directory", "current"}
          /\ site \in SoundSites
    /\ InitRun

\* ------------------------------------------------------------------ actions
\* the team of the current iteration of `for team in team_urls`
Team == team_urls.keys[ti]

CallRecord(url, resp, r) ==
    [url |-> url, status |-> resp.status, exc |-> r.exc, returned |-> r.returned,
     warned |-> r.warned]

\* get_team_urls (lines 48-58), called first by every entry point
GetTeamUrls ==
    /\ pc = "start"
    /\ \E resp \in Responses(BASE_URL) :
         LET r == get_page_html(BASE_URL, resp, "", events)
             d == IF r.exc # "none" THEN Raise(r.exc) ELSE ParseTeamUrls(r.text)
         IN /\ events' = r.events
            /\ page_result' = CallRecord(BASE_URL, resp, r)
            /\ exc' = d.exc
            /\ team_urls' = IF d.exc = "none" THEN d.value ELSE team_urls
            /\ ti' = 1
            /\ pc' = IF d.exc # "none" THEN "raised"
                     ELSE IF mode = "directory" THEN "returned"
                     ELSE IF mode = "current" THEN "cur_loop"
                     ELSE "hist_loop"
    /\ UNCHANGED <<mode, site, current_url, historic_rosters, rosters, stores,
                   roster_table, players>>

\* get_current_rosters, one iteration (lines 112-116): line 114 reads the name
\* `response`, which is bound neither in the function nor in the module
CurrentIteration ==
    /\ pc = "cur_loop"
    /\ ti <= Len(team_urls.keys)
    /\ \E resp \in Responses(team_urls.val[Team]) :
         LET r == get_page_html(team_urls.val[Team], resp, Team, events)
         IN /\ events' = r.events
            /\ page_result' = CallRecord(team_urls.val[Team], resp, r)
            /\ exc' = IF r.exc # "none" THEN r.exc ELSE "NameError"
            /\ pc' = "raised"
    /\ UNCHANGED <<mode, site, team_urls, ti, current_url, historic_rosters, rosters,
                   stores, roster_table, players>>

\* get_current_rosters, line 118
CurrentReturn ==
    /\ pc = "cur_loop"
    /\ ti > Len(team_urls.keys)
    /\ pc' = "returned"
    /\ UNCHANGED <<mode, site, exc, team_urls, ti, current_url, historic_rosters, rosters,
                   events, stores, page_result, roster_table, players>>

HistoricNextTeam_KeepMapping ==
    /\ pc = "hist_loop"
    /\ ti <= Len(team_urls.keys)
    /\ current_url' = team_urls.val[Team]
    /\ pc' = "walk"
    /\ UNCHANGED <<mode, site, exc, team_urls, ti, historic_rosters, rosters, events, stores,
                   page_result, roster_table, players>>

\* get_historic_rosters, lines 135-137: the next team of the directory
HistoricNextTeam ==
    /\ pc = "hist_loop"
    /\ ti <= Len(team_urls.keys)
    /\ current_url' = team_urls.val[Team]
    /\ historic_rosters' = <<>>
    /\ pc' = "walk"
    /\ UNCHANGED <<mode, site, exc, team_urls, ti, rosters, events, stores, page_result,
                   roster_table, players>>

\* get_historic_rosters, lines 138-153: one iteration of the walk
Walk ==
    /\ pc = "walk"
    /\ \E resp \in Responses(current_url) :
         LET w == WalkBody(Team, current_url, resp, historic_rosters, events)
         IN /\ events' = w.events
            /\ exc' = w.exc
            /\ historic_rosters' = w.historic_rosters
            /\ stores' = IF w.exc # "none" THEN stores
                         ELSE Append(stores, [team |-> Team, year |-> w.year,
                                              url |-> current_url])
            /\ current_url' = IF w.next # None THEN The(w.next) ELSE current_url
            /\ pc' = IF w.exc # "none" THEN "raised"
                     ELSE IF w.next # None THEN "walk"
                     ELSE "attach"
    /\ UNCHANGED <<mode, site, team_urls, ti, rosters, page_result, roster_table, players>>

\* get_historic_rosters, line 155, and the step of the for loop
Attach ==
    /\ pc = "attach"
    /\ rosters' = (Team :> historic_rosters) @@ rosters
    /\ ti' = ti + 1
    /\ pc' = "hist_loop"
    /\ UNCHANGED <<mode, site, exc, team_urls, current_url, historic_rosters, events,
                   stores, page_result, roster_table, players>>

\* get_historic_rosters, line 157
HistoricReturn ==
    /\ pc = "hist_loop"
    /\ ti > Len(team_urls.keys)
    /\ pc' = "returned"
    /\ UNCHANGED <<mode, site, exc, team_urls, ti, current_url, historic_rosters, rosters,
                   events, stores, page_result, roster_table, players>>

Next ==
    \/ GetTeamUrls
    \/ CurrentIteration
    \/ CurrentReturn
    \/ HistoricNextTeam
    \/ Walk
    \/ Attach
    \/ HistoricReturn

Spec == Init /\ [][Next]_vars

\* ---------------------------------------------- get_team_urls on its own
SeqsUpTo(S, n) == UNION {[1..k -> S] : k \in 0..n}

DirHeaders ==
    {TeamLink(t, u, BaseYear) : t \in Teams, u \in Teams} \cup {NoLinkHeader}

\* the landing pages: up to MaxLinks header cells, in one table or split over two
\* conference tables, and the pages that lack a part of the structure
DirLandings ==
    {Landing(<<Table(h)>>) : h \in SeqsUpTo(DirHeaders, MaxLinks)}
    \cup {Landing(<<Table(SubSeq(p[1], 1, p[2])), Table(SubSeq(p[1], p[2] + 1, Len(p[1])))>>) :
            p \in {q \in SeqsUpTo(DirHeaders, MaxLinks) \X (0..MaxLinks) : q[2] <= Len(q[1])}}
    \cup {Landing(<<>>), ErrorPage, Page(Some([div |-> None]), None, {}, 0),
          Landing(<<[tbody |-> None]>>)}

InitDir ==
    /\ mode = "directory"
    /\ \E l \in DirLandings : site = Site(l, [t \in Teams |-> 1], NoDefect)
    /\ InitRun

NextDir == GetTeamUrls

SpecDir == InitDir /\ [][NextDir]_vars

\* ------------------------------------------------ get_players on its own
RowKinds ==
    { PlayerRow(<<"Al">>, <<>>),
      PlayerRow(<<"Bo">>, <<" (TW)">>),
      PlayerRow(<<"Cy">>, <<>>) \o <<TextCell("pos", <<"second pos cell">>)>>,
      ShortRow(<<"Di">>),
      <<TextCell("number", <<"9">>)>> \o Tail(Tail(PlayerRow(<<"Fy">>, <<>>))),
      <<Cell("td", "player", None, <<"Ed">>)>> \o Tail(Tail(PlayerRow(<<"Ed">>, <<>>))) }

RosterTables == SeqsUpTo(RowKinds, MaxRows)

InitPlayers ==
    /\ mode = "extract"
    /\ site = Site(ErrorPage, [t \in Teams |-> 1], NoDefect)
    /\ InitData
    /\ pc = "extract"
    /\ roster_table \in RosterTables

\* a call of get_players (lines 94-97)
Extract ==
    /\ pc = "extract"
    /\ players' = get_players(roster_table)
    /\ exc' = players'.exc
    /\ pc' = IF players'.exc = "none" THEN "returned" ELSE "raised"
    /\ UNCHANGED <<mode, site, team_urls, ti, current_url, historic_rosters, rosters,
                   events, stores, page_result, roster_table>>

NextPlayers == Extract

SpecPlayers == InitPlayers /\ [][NextPlayers]_vars

\* ------------------------------------------------------- history, measured
GetsOf(evs, t) == {i \in 1..Len(evs) : evs[i].kind = "get" /\ evs[i].team = t}
AllGets(evs) == {i \in 1..Len(evs) : evs[i].kind = "get"}
AllSleeps(evs) == {i \in 1..Len(evs) : evs[i].kind = "sleep"}

\* the body that came back from the GET of event ev
BodyOf(ev) == IF ev.content = "page" THEN PageOf(site, ev.url) ELSE ErrorPage

\* the season chain of a team on the site, counted from the page at url: the
\* pages reached by following, from each page, the link to the team's page of
\* the year before
RECURSIVE ChainLen(_, _)
ChainLen(t, url) ==
    IF url \notin DOMAIN site THEN 0
    ELSE LET back == SeasonPath(t, ParseYear(url) - 1)
         IN IF back \in PageOf(site, url).links THEN 1 + ChainLen(t, BASE_URL \o back) ELSE 1

DirectoryTeams == {team_urls.keys[i] : i \in 1..Len(team_urls.keys)}

\* ------------------------------------------------------------------- C1
\* C1: a team whose season chain has K linked pages is never fetched more than
\* K times, and once its walk is over its mapping has exactly the K keys
\* baseYear, baseYear-1, ..., baseYear-K+1 and exactly K fetches were made.
C1_WalkTermination ==
    mode = "historic" =>
      \A t \in DirectoryTeams :
        LET seed == team_urls.val[t]
            K == ChainLen(t, seed)
            baseYear == ParseYear(seed)
        IN /\ Cardinality(GetsOf(events, t)) <= K
           /\ t \in DOMAIN rosters =>
                /\ DOMAIN rosters[t] = {baseYear - j : j \in 0..(K - 1)}
                /\ Cardinality(GetsOf(events, t)) = K

\* a run that returned the mapping of a team with a chain of at least three seasons
C1_Witness ==
    /\ mode = "historic"
    /\ pc = "returned"
    /\ \E t \in DirectoryTeams :
         /\ ChainLen(t, team_urls.val[t]) >= 3
         /\ t \in DOMAIN rosters
         /\ Cardinality(DOMAIN rosters[t]) = ChainLen(t, team_urls.val[t])

\* ------------------------------------------------------------------- C2
\* the fetches of team t's walk, other than its first, that failed
FailedLater(t) ==
    {i \in GetsOf(events, t) : events[i].status # "ok" /\ \E j \in GetsOf(events, t) : j < i}

\* C2: when a fetch of a team's walk other than the first fails, no exception
\* leaves the walker, the walk of that team ends with that fetch, and the run
\* returns a dataset with every team of the directory, the team's mapping
\* holding as many entries as pages were fetched before the failure.
C2_WalkResilience ==
    mode = "historic" =>
      \A t \in DirectoryTeams : \A i \in FailedLater(t) :
        /\ exc = "none"
        /\ \A j \in GetsOf(events, t) : j <= i
        /\ pc = "returned" =>
             /\ DirectoryTeams \subseteq DOMAIN rosters
             /\ Cardinality(DOMAIN rosters[t])
                  = Cardinality({j \in GetsOf(events, t) : j < i})

\* ------------------------------------------------------------------- C3
\* C3: the number of rate-limiter delays equals the number of GET attempts,
\* failed ones included.
C3_DelayPerFetch ==
    Cardinality(AllSleeps(events)) = Cardinality(AllGets(events))

\* ------------------------------------------------------------------- C4
\* C4: between any two consecutive GETs there is a delay: no GET is issued
\* right after another GET, whether the earlier one succeeded or failed.
C4_DelayBetweenFetches ==
    \A i \in 1..(Len(events) - 1) :
      ~(events[i].kind = "get" /\ events[i + 1].kind = "get")

\* ------------------------------------------------------------------- C5
\* C5: get_page_html never raises: when the GET ends with an error status or a
\* transport failure, the call returns an error outcome, not page content.
C5_FetcherNeverRaises ==
    page_result.status \in {"http", "transport"} =>
      /\ page_result.exc = "none"
      /\ page_result.returned = "FetchError"

\* ------------------------------------------------------------------- C6
\* C6: within a team's walk the keys of successive iterations decrease by
\* exactly 1, and each key is the year embedded in the url that was fetched,
\* whatever season the page itself declares.
C6_YearsStepByOne ==
    /\ \A i \in 1..Len(stores) :
         /\ \E x \in Teams : stores[i].url = BASE_URL \o SeasonPath(x, stores[i].year)
         /\ i > 1 /\ stores[i - 1].team = stores[i].team
              => stores[i].year = stores[i - 1].year - 1
    /\ pc \in {"walk", "attach"} =>
         DOMAIN historic_rosters
           = {stores[i].year : i \in {k \in 1..Len(stores) : stores[k].team = Team}}

\* a later page of a walk was stored under the year of its url although the page
\* declares another season
C6_Witness ==
    \E i \in 2..Len(stores) :
      /\ stores[i - 1].team = stores[i].team
      /\ PageOf(site, stores[i].url).season # stores[i].year
      /\ stores[i].year \in DOMAIN historic_rosters

\* ------------------------------------------------------------------- C7
\* the lookups of lines 145-146 fail on the page
ExtractionFails(page) ==
    \/ page.roster = None
    \/ The(page.roster).tbody = None
    \/ get_players(The(The(page.roster).tbody)).exc # "none"

\* C7: when roster extraction fails on a page fetched during a team's walk, the
\* run is not aborted: no exception leaves the walker, and the run returns
\* the entries of the other teams.
C7_ExtractionScoped ==
    mode = "historic" =>
      \A i \in AllGets(events) :
        (events[i].team # "" /\ events[i].status = "ok" /\ ExtractionFails(BodyOf(events[i])))
          => /\ exc = "none"
             /\ pc = "returned" => (DirectoryTeams \ {events[i].team}) \subseteq DOMAIN rosters

\* ------------------------------------------------------------------- C8
\* C8: when the landing page that came back lacks the teams section,
\* get_team_urls raises, no directory is returned and no team page is fetched.
C8_NoSectionAborts ==
    (Len(events) >= 1 /\ events[1].status # "transport" /\ BodyOf(events[1]).teams = None)
      => /\ pc = "raised"
         /\ exc = "AttributeError"
         /\ team_urls = EmptyDict
         /\ rosters = <<>>
         /\ Cardinality(AllGets(events)) = 1

\* the landing page of the site itself has no teams section, and the run is over
C8_Witness ==
    /\ mode \in {"current", "historic"}
    /\ Len(events) >= 1
    /\ events[1].status = "ok"
    /\ PageOf(site, BASE_URL).teams = None
    /\ pc = "raised"

\* ------------------------------------------------------------------- C9
\* the team links of a landing page: table, header cell, text and href
LandingLinks(page) ==
    LET tables == The(The(page.teams).div)
    IN {p \in (1..Len(tables)) \X (1..MaxLinks) : p[2] <= Len(The(tables[p[1]].tbody))}

LinkAt(page, p) == The(The(The(The(page.teams).div)[p[1]].tbody)[p[2]].a)

\* a valid landing page: the teams section with its conference tables, one team
\* link in every header cell, no team code twice (TeamCode identifies a team)
ValidLanding(page) ==
    /\ page.teams # None
    /\ The(page.teams).div # None
    /\ \A i \in 1..Len(The(The(page.teams).div)) : The(The(page.teams).div)[i].tbody # None
    /\ \A p \in LandingLinks(page) : The(The(The(page.teams).div)[p[1]].tbody)[p[2]].a # None
    /\ \A p, q \in LandingLinks(page) :
         LinkAt(page, p).text = LinkAt(page, q).text => p = q

\* C9: for a valid landing page get_team_urls returns a mapping with exactly one
\* entry per team link of the header cells of the conference tables, the key the
\* link's text and the value BASE_URL followed by the link's href, and no other key.
C9_DirectoryExact ==
    (Len(events) >= 1 /\ events[1].status # "transport" /\ ValidLanding(BodyOf(events[1])))
      => LET page == BodyOf(events[1])
         IN /\ pc = "returned"
            /\ exc = "none"
            /\ DOMAIN team_urls.val = {LinkAt(page, p).text : p \in LandingLinks(page)}
            /\ \A p \in LandingLinks(page) :
                 team_urls.val[LinkAt(page, p).text] = BASE_URL \o LinkAt(page, p).href
            /\ Len(team_urls.keys) = Cardinality(LandingLinks(page))
            /\ {team_urls.keys[k] : k \in 1..Len(team_urls.keys)} = DOMAIN team_urls.val

\* the directory of a valid landing page with team links in two conference tables
C9_Witness ==
    /\ pc = "returned"
    /\ ValidLanding(PageOf(site, BASE_URL))
    /\ events[1].status = "ok"
    /\ \E p, q \in LandingLinks(PageOf(site, BASE_URL)) : p[1] # q[1]
    /\ Len(team_urls.keys) = 2

\* ------------------------------------------------------------------- C10
WellFormed(table) == \A i \in 1..Len(table) : RowOk(table[i])

TextOf(row, stat) == CellText(The(FindCell(row, stat)))

\* C10 as stated: for a table body of N well-formed rows get_players returns N
\* records in row order, each of the five fields the text of the row's cell.
C10_FieldsAreCellTexts ==
    (pc # "extract" /\ WellFormed(roster_table))
      => /\ players.exc = "none"
         /\ Len(players.value) = Len(roster_table)
         /\ \A i \in 1..Len(roster_table) :
              /\ players.value[i].name = TextOf(roster_table[i], "player")
              /\ players.value[i].position = TextOf(roster_table[i], "pos")
              /\ players.value[i].height = TextOf(roster_table[i], "height")
              /\ players.value[i].weight = TextOf(roster_table[i], "weight")
              /\ players.value[i].birthdate = TextOf(roster_table[i], "birth_date")

\* C10, amended: for a table body of N well-formed rows get_players returns N
\* records in row order; the name is the text of the anchor of the row's player
\* cell, the other four fields are the texts of the row's cells.
C10_NameIsAnchorText ==
    (pc # "extract" /\ WellFormed(roster_table))
      => /\ players.exc = "none"
         /\ Len(players.value) = Len(roster_table)
         /\ \A i \in 1..Len(roster_table) :
              /\ players.value[i].name = The(The(FindCell(roster_table[i], "player")).a)
              /\ players.value[i].position = TextOf(roster_table[i], "pos")
              /\ players.value[i].height = TextOf(roster_table[i], "height")
              /\ players.value[i].weight = TextOf(roster_table[i], "weight")
              /\ players.value[i].birthdate = TextOf(roster_table[i], "birth_date")

\* three different well-formed rows were extracted, one of them with text after
\* the anchor of its player cell
C10_Witness ==
    /\ pc = "returned"
    /\ Len(roster_table) = 3
    /\ Len(players.value) = 3
    /\ \A i, j \in 1..3 : roster_table[i] = roster_table[j] => i = j
    /\ \E i \in 1..3 : The(FindCell(roster_table[i], "player")).tail # <<>>

\* ------------------------------------------------------------------- C11
\* the row lacks one of the five expected cells
LacksCell(row) == \E i \in 1..Len(Stats) : FindCell(row, Stats[i]) = None

\* C11: when a row of the roster table lacks one of the five expected cells,
\* get_players fails with an error and returns no roster at all: neither one
\* with a partial record nor one without the faulty row.
C11_MissingCellFails ==
    (pc # "extract" /\ \E i \in 1..Len(roster_table) : LacksCell(roster_table[i]))
      => /\ pc = "raised"
         /\ exc = "AttributeError"
         /\ players.exc = "AttributeError"
         /\ players.value = <<>>

\* the call failed on a table whose only faulty row, without its weight cell,
\* comes after a well-formed row
C11_Witness ==
    /\ pc = "raised"
    /\ Len(roster_table) >= 2
    /\ RowOk(roster_table[1])
    /\ FindCell(roster_table[2], "weight") = None
    /\ FindCell(roster_table[2], "player") # None
    /\ \A i \in 3..Len(roster_table) : RowOk(roster_table[i])

\* ------------------------------------------------------------------- C12
\* the mapping of the team being walked, not yet attached to rosters
Inner ==
    IF mode = "historic" /\ pc \in {"walk", "attach", "raised"} /\ ti \in 1..Len(team_urls.keys)
      THEN (Team :> historic_rosters) ELSE <<>>

\* HistoricalDataset: the mappings attached to rosters and the one being built
Dataset == rosters @@ Inner

\* C12: a roster stored at HistoricalDataset[team][year] is never overwritten,
\* removed or changed by a later step, and no (team, year) key is written twice.
C12_EntriesImmutable ==
    [][ /\ \A t \in DOMAIN Dataset : \A y \in DOMAIN Dataset[t] :
             /\ t \in DOMAIN Dataset'
             /\ y \in DOMAIN Dataset'[t]
             /\ Dataset'[t][y] = Dataset[t][y]
        /\ stores' # stores =>
             \A i \in 1..Len(stores) :
               ~(/\ stores[i].team = stores'[Len(stores')].team
                 /\ stores[i].year = stores'[Len(stores')].year)
      ]_vars

\* a run returned the mappings of two teams, one of them with several seasons
C12_Witness ==
    /\ pc = "returned"
    /\ Cardinality(DOMAIN rosters) = 2
    /\ \E t \in DOMAIN rosters : Cardinality(DOMAIN rosters[t]) >= 2
    /\ Len(stores) >= 3

\* ------------------------------------------------------------------- C13
\* the roster that the walk of get_historic_rosters stores for the page at url
RosterAt(url) == get_players(The(The(PageOf(site, url).roster).tbody)).value

\* C13: with no failing fetch, get_current_rosters returns a mapping whose keys
\* are the keys of the directory, each team's value being the roster that
\* get_historic_rosters stores for the team's seed url.
C13_CurrentEqualsHistoricSeed ==
    (/\ mode = "current"
     /\ pc \in {"returned", "raised"}
     /\ \A i \in AllGets(events) : events[i].status = "ok"
     /\ PageOf(site, BASE_URL) \in WalkLandings)
      => /\ pc = "returned"
         /\ DOMAIN rosters = DirectoryTeams
         /\ \A t \in DirectoryTeams : rosters[t] = RosterAt(team_urls.val[t])

\* ------------------------------------------------------------------- C14
\* the last GET of the walk of the current team
LastGet == CHOOSE g \in GetsOf(events, Team) : \A h \in GetsOf(events, Team) : h <= g

\* C14: after a page of a walk was stored, the walk continues if and only if
\* that page has a link whose href is exactly /teams/{team}/{year-1}.html, the
\* next url then being BASE_URL followed by that path; otherwise the walk is
\* over, with the roster of the page stored under year.
C14_ContinueIffPredecessorLink ==
    (mode = "historic" /\ pc \in {"walk", "attach"} /\ GetsOf(events, Team) # {})
      => LET page == BodyOf(events[LastGet])
             year == ParseYear(events[LastGet].url)
             path == <<"/teams/", Team, "/">> \o Str(year - 1) \o <<".html">>
         IN /\ pc = "walk" <=> path \in page.links
            /\ pc = "walk" => current_url = BASE_URL \o path
            /\ year \in DOMAIN historic_rosters
            /\ historic_rosters[year] = RosterAt(events[LastGet].url)

\* a walk ended on a page that has links to other seasons, none of them the
\* season before
C14_Witness ==
    /\ mode = "historic"
    /\ pc = "attach"
    /\ GetsOf(events, Team) # {}
    /\ BodyOf(events[LastGet]).links # {}
    /\ Cardinality(DOMAIN historic_rosters) >= 2

\* ------------------------------------------------------------------- C15
\* C15: within one team's walk no url is fetched more than once, whatever
\* links the pages contain.
C15_NoUrlTwice ==
    \A t \in DirectoryTeams : \A i, j \in GetsOf(events, t) :
      events[i].url = events[j].url => i = j

\* a walk of several fetches went over a page that links to itself, to the next
\* season and to the other team
C15_Witness ==
    /\ mode = "historic"
    /\ \E t \in DOMAIN rosters :
         /\ Cardinality(GetsOf(events, t)) >= 2
         /\ \E i \in GetsOf(events, t) :
              /\ events[i].url \in {BASE_URL \o l : l \in BodyOf(events[i]).links}
              /\ Cardinality(BodyOf(events[i]).links) >= 3

\* ------------------------------------------------------------------- C16
\* the seasons stored during the walk of team t
StoredYears(t) == {stores[i].year : i \in {k \in 1..Len(stores) : stores[k].team = t}}

\* the url fetched for the store of season y of team t
StoredUrl(t, y) ==
    stores[CHOOSE i \in 1..Len(stores) : stores[i].team = t /\ stores[i].year = y].url

\* C16: no step changes or removes the mapping attached under a team's key; a
\* mapping is attached only when the walk of its team is over, under a key that
\* has none yet, and it holds the seasons stored during that walk and no other.
C16_TeamsIndependent ==
    [][ /\ \A t \in DOMAIN rosters : t \in DOMAIN rosters' /\ rosters'[t] = rosters[t]
        /\ rosters' # rosters =>
             /\ pc = "attach"
             /\ Team \notin DOMAIN rosters
             /\ DOMAIN rosters' = DOMAIN rosters \cup {Team}
             /\ DOMAIN rosters'[Team] = StoredYears(Team)
             /\ \A y \in StoredYears(Team) : rosters'[Team][y] = RosterAt(StoredUrl(Team, y))
      ]_vars

\* a run returned the mappings of two teams that do not span the same seasons
C16_Witness ==
    /\ pc = "returned"
    /\ DOMAIN rosters = {"A", "B"}
    /\ DOMAIN rosters["A"] # DOMAIN rosters["B"]
    /\ Cardinality(DOMAIN rosters["A"]) >= 2

\* ------------------------------------------------------------------- C17
\* the place of team t in the directory
PlaceOf(t) == CHOOSE k \in 1..Len(team_urls.keys) : team_urls.keys[k] = t

\* C17: the first GET of a run asks for the landing page; every later GET asks
\* for the seed url of the team being walked or for BASE_URL followed by
\* /teams/{team}/{year}.html of that team, a walk starting with the seed url;
\* the fetches follow the order of the directory, all those of one team before
\* the first of the next.
C17_SequentialSeeded ==
    /\ events # <<>> =>
         /\ events[1].kind = "get"
         /\ events[1].url = BASE_URL
         /\ events[1].team = ""
    /\ \A i \in AllGets(events) \ {1} :
         LET t == events[i].team
             url == events[i].url
         IN /\ t \in DirectoryTeams
            /\ \/ url = team_urls.val[t]
               \/ /\ YearMatch(url) # 0
                  /\ url = BASE_URL \o <<"/teams/", t, "/">> \o Str(ParseYear(url)) \o <<".html">>
            /\ (\A h \in GetsOf(events, t) : i <= h) => url = team_urls.val[t]
    /\ \A i, j \in AllGets(events) \ {1} :
         i < j => PlaceOf(events[i].team) <= PlaceOf(events[j].team)

\* a run walked two teams, the first over several pages
C17_Witness ==
    /\ mode = "historic"
    /\ pc = "returned"
    /\ Len(team_urls.keys) = 2
    /\ Cardinality(GetsOf(events, team_urls.keys[1])) >= 2
    /\ Cardinality(GetsOf(events, team_urls.keys[2])) >= 1

=============================================================================
